---- MODULE Spec2Model ----
(***************************************************************************)
(* Model of the import resolver of gazelle/resolve.go: Resolve,            *)
(* resolveWalkParents, isNpmDependency and tryResolve.  Strings are TLA+   *)
(* strings, so that prefixes, path joins and label rendering are computed  *)
(* character by character as the Go code computes them.                    *)
(***************************************************************************)
EXTENDS Integers, Sequences, FiniteSets, TLC

(***************************************************************************)
(* String helpers (Go strings / path packages as used by resolve.go)       *)
(***************************************************************************)
Min(S) == CHOOSE m \in S : \A n \in S : m <= n

\* strings.HasPrefix
HasPrefix(s, p) == Len(s) >= Len(p) /\ SubSeq(s, 1, Len(p)) = p

\* strings.TrimPrefix
TrimPrefix(s, p) == IF HasPrefix(s, p) THEN SubSeq(s, Len(p) + 1, Len(s)) ELSE s

\* strings.Split(s, "/"): the pieces between the slashes at positions cuts
RECURSIVE Pieces(_, _, _)
Pieces(s, start, cuts) ==
    IF cuts = {} THEN <<SubSeq(s, start, Len(s))>>
    ELSE LET c == Min(cuts)
         IN  <<SubSeq(s, start, c - 1)>> \o Pieces(s, c + 1, cuts \ {c})

Split(s) == Pieces(s, 1, {i \in 1..Len(s) : SubSeq(s, i, i) = "/"})

\* strings.Join(segs, "/")
RECURSIVE JoinSlash(_)
JoinSlash(segs) ==
    IF Len(segs) = 0 THEN ""
    ELSE IF Len(segs) = 1 THEN segs[1]
    ELSE segs[1] \o "/" \o JoinSlash(Tail(segs))

\* the element stack path.Clean builds: "" and "." are dropped, ".." removes
\* the preceding element unless there is none (kept on a relative path,
\* dropped on a rooted one)
RECURSIVE CleanSegs(_, _, _)
CleanSegs(segs, out, rooted) ==
    IF Len(segs) = 0 THEN out
    ELSE LET seg == Head(segs) IN
         IF seg = "" \/ seg = "." THEN CleanSegs(Tail(segs), out, rooted)
         ELSE IF seg = ".." THEN
              IF Len(out) > 0 /\ out[Len(out)] # ".."
                 THEN CleanSegs(Tail(segs), SubSeq(out, 1, Len(out) - 1), rooted)
              ELSE IF rooted THEN CleanSegs(Tail(segs), out, rooted)
              ELSE CleanSegs(Tail(segs), Append(out, ".."), rooted)
         ELSE CleanSegs(Tail(segs), Append(out, seg), rooted)

\* path.Clean
Clean(p) ==
    LET rooted == HasPrefix(p, "/")
        out    == CleanSegs(Split(p), <<>>, rooted)
    IN  IF rooted THEN "/" \o JoinSlash(out)
        ELSE IF Len(out) = 0 THEN "." ELSE JoinSlash(out)

\* path.Join(a, b): empty elements are ignored, the result is cleaned, and
\* the join of only empty elements is the empty string
PathJoin(a, b) ==
    IF a = "" /\ b = "" THEN ""
    ELSE IF a = "" THEN Clean(b)
    ELSE IF b = "" THEN Clean(a)
    ELSE Clean(a \o "/" \o b)

\* path.Dir
PathDir(p) ==
    LET segs == Split(p)
    IN  IF Len(segs) = 1 THEN "."
        ELSE Clean(JoinSlash(SubSeq(segs, 1, Len(segs) - 1)) \o "/")

\* path.Base (the name os.FileInfo.Name() reports for a cleaned path)
PathBase(p) ==
    LET segs == SelectSeq(Split(p), LAMBDA x : x # "")
    IN  IF p = "" THEN "."
        ELSE IF Len(segs) = 0 THEN "/"
        ELSE segs[Len(segs)]

(***************************************************************************)
(* Labels (bazel-gazelle label.Label as used by resolve.go)                *)
(***************************************************************************)
NoLabel == [repo |-> "", pkg |-> "", name |-> "", relative |-> FALSE]

Lbl(pkg, nm) == [repo |-> "", pkg |-> pkg, name |-> nm, relative |-> FALSE]

\* label.Label.Equal
LabelEqual(a, b) == a = b

\* label.Label.Rel(repo, pkg)
LabelRel(l, repo, pkg) ==
    IF l.relative \/ l.repo # repo THEN l
    ELSE IF l.pkg = pkg
         THEN [repo |-> "", pkg |-> "", name |-> l.name, relative |-> TRUE]
    ELSE [repo |-> "", pkg |-> l.pkg, name |-> l.name, relative |-> FALSE]

\* label.Label.Abs(repo, pkg)
LabelAbs(l, repo, pkg) ==
    IF ~l.relative THEN l
    ELSE [repo |-> repo, pkg |-> pkg, name |-> l.name, relative |-> FALSE]

\* label.Label.String
LabelString(l) ==
    IF l.relative THEN ":" \o l.name
    ELSE LET repo == IF l.repo # "" /\ l.repo # "@" THEN "@" \o l.repo ELSE l.repo
         IN  IF PathBase(l.pkg) = l.name
                THEN repo \o "//" \o l.pkg
             ELSE repo \o "//" \o l.pkg \o ":" \o l.name

(***************************************************************************)
(* Program constants                                                       *)
(***************************************************************************)
BUILTINS ==
    {"assert", "async_hooks", "buffer", "child_process", "cluster", "console",
     "constants", "crypto", "dgram", "dns", "domain", "events", "fs", "http",
     "http2", "https", "inspector", "module", "net", "os", "path",
     "perf_hooks", "process", "punycode", "querystring", "readline", "repl",
     "stream", "string_decoder", "timers", "tls", "trace_events", "tty",
     "url", "util", "v8", "vm", "wasi", "worker_threads", "zlib"}

\* prefixes that cannot be NPM dependencies
prefixes == <<".", "/", "../", "~/", "@/", "~~/">>

\* declared source extensions, in their declared order
tsExtensions == <<".ts", ".tsx">>

jsExtensions == <<".js", ".jsx">>

\* suffixes of the recognised non-code asset paths
WebAssetSuffixes == {".css"}

\* c.RepoRoot
RepoRoot == "/repo"

(***************************************************************************)
(* State                                                                   *)
(***************************************************************************)
VARIABLES
    from,        \* label of the importing unit
    kind,        \* r.Kind()
    attrs,       \* the attributes of r: a function on a subset of {"deps", "data"}
    importSet,   \* imports.set
    ix,          \* the rule index: identifier -> sequence of owning labels
    overrides,   \* the override table: identifier -> label
    files,       \* the regular files on disk (absolute paths)
    jsConfig,    \* the configuration of from.Pkg
    pc,          \* position inside Resolve
    packageJSON, \* Resolve's local packageJSON
    depSet,      \* Resolve's local depSet
    dataSet,     \* Resolve's local dataSet
    todo,        \* identifiers the range loop has not yet visited
    name,        \* identifier handed to resolveWalkParents
    parents,     \* resolveWalkParents' local parents
    localDir,    \* resolveWalkParents' local localDir
    target,      \* resolveWalkParents' local target
    tries,       \* resolveWalkParents' local tries
    extIdx,      \* position in extraExtensionsToTry
    log,         \* messages printed so far
    handled,     \* identifiers the range loop has visited so far
    exit,        \* how Resolve returned
    prevAttrs    \* attrs when Resolve was called

inputs == <<from, kind, importSet, ix, overrides, files, jsConfig>>

locals == <<packageJSON, depSet, dataSet, todo, name, parents, localDir, target,
            tries, extIdx>>

vars == <<from, kind, attrs, importSet, ix, overrides, files, jsConfig, pc,
          packageJSON, depSet, dataSet, todo, name, parents, localDir, target,
          tries, extIdx, log, handled, exit, prevAttrs>>

(***************************************************************************)
(* Collaborators, at their interface                                       *)
(***************************************************************************)
\* resolve.FindRuleWithOverride: <<label>> on a hit, <<>> otherwise
FindRuleWithOverride(t) ==
    IF t \in DOMAIN overrides THEN <<overrides[t]>> ELSE <<>>

\* ix.FindRulesByImportWithConfig: the labels of the rules indexing t
FindRulesByImportWithConfig(t) ==
    IF t \in DOMAIN ix THEN ix[t] ELSE <<>>

\* resolve.FindResult.IsSelfImport
IsSelfImport(match, frm) == LabelEqual(match, frm)

\* os.Stat(p) succeeds and is not a directory
IsRegularFile(p) == p \in files

\* lang.isWebAsset
isWebAsset(p) ==
    \E suffix \in WebAssetSuffixes :
        Len(p) >= Len(suffix) /\ SubSeq(p, Len(p) - Len(suffix) + 1, Len(p)) = suffix

\* getKind: the kind a rule of the given kind is generated as
getKind(k) == k

\* jsConfig.ImportAliasPattern.FindStringSubmatch(n)[0]: the pattern is the
\* anchored alternation of the "from" prefixes; <<>> when it does not match
RECURSIVE AliasMatchFrom(_, _)
AliasMatchFrom(n, aliases) ==
    IF Len(aliases) = 0 THEN <<>>
    ELSE IF HasPrefix(n, Head(aliases).From) THEN <<Head(aliases).From>>
    ELSE AliasMatchFrom(n, Tail(aliases))

FindStringSubmatch(n) == AliasMatchFrom(n, jsConfig.ImportAliases)

(***************************************************************************)
(* tryResolve and isNpmDependency                                          *)
(***************************************************************************)
hasPrefix(suffixes, x) == \E i \in 1..Len(suffixes) : HasPrefix(x, suffixes[i])

resolveResult(lbl, self, fileName, err) ==
    [label |-> lbl, selfImport |-> self, fileName |-> fileName, err |-> err]

\* the error value nil
nil == <<>>

tryResolve(t) ==
    LET found    == FindRuleWithOverride(t)
        override == IF Len(found) = 0 THEN NoLabel
                    ELSE IF found[1].repo = "" THEN [found[1] EXCEPT !.repo = from.repo]
                    ELSE found[1]
        matches  == FindRulesByImportWithConfig(t)
    IN  IF Len(found) > 0 /\ ~LabelEqual(override, from)
           THEN resolveResult(IF override.repo = from.repo
                                 THEN [override EXCEPT !.repo = ""]
                                 ELSE override,
                              FALSE, "", nil)
        ELSE IF Len(matches) > 1
           THEN resolveResult(NoLabel, FALSE, "",
                              <<"multiple rules", matches[1], matches[2], t>>)
        ELSE IF Len(matches) = 0
           THEN IF IsRegularFile(PathJoin(RepoRoot, t))
                   THEN resolveResult(NoLabel, FALSE,
                                      PathBase(PathJoin(RepoRoot, t)), nil)
                ELSE resolveResult(NoLabel, FALSE, "", nil)
        ELSE IF IsSelfImport(matches[1], from)
           THEN resolveResult(NoLabel, TRUE, "", nil)
        ELSE resolveResult(matches[1], FALSE, "", nil)

\* the first part of the import ("foo/bar" -> "foo")
packageRoot(imp) ==
    LET cuts == {i \in 1..Len(imp) :
                    SubSeq(imp, i, i) = "/" /\ SubSeq(imp, 1, i - 1) # "@types"}
    IN  IF cuts = {} THEN imp ELSE SubSeq(imp, 1, Min(cuts) - 1)

\* isNpmDependency returns <<found, npmLabel, devDep>>
isNpmDependency(imp) ==
    IF hasPrefix(prefixes, imp) THEN <<FALSE, "", FALSE>>
    ELSE IF packageRoot(imp) \in DOMAIN jsConfig.Dependencies
         THEN <<TRUE, jsConfig.Dependencies[packageRoot(imp)], FALSE>>
    ELSE IF packageRoot(imp) \in DOMAIN jsConfig.DevDependencies
         THEN <<TRUE, jsConfig.DevDependencies[packageRoot(imp)], TRUE>>
    ELSE IF HasPrefix(imp, "@types") THEN <<FALSE, "", FALSE>>
    ELSE IF HasPrefix(imp, "@") THEN <<TRUE, jsConfig.DefaultNpmLabel, FALSE>>
    ELSE <<FALSE, "", FALSE>>

(***************************************************************************)
(* Bounds and the inputs Init draws from                                   *)
(***************************************************************************)
\* largest import set of a unit
MaxImports == 2

\* cap on the number of "../" steps resolveWalkParents is followed through
MaxClimb == 3

Identifiers ==
    {"package.json", "./utils", "lodash/fp", "@foo/bar", "fs", "node:fs",
     "~/utils", "lib/x", "./app.css", "jest-mock", "pkg/app.css"}

Units == {Lbl("", "root"), Lbl("pkg", "utils"), Lbl("pkg/sub", "lib")}

\* index, override table and disk contents
Worlds ==
    { \* nothing indexed, nothing on disk
      [ix |-> <<>>, overrides |-> <<>>, files |-> {}],
      \* every source file has one owner
      [ix |-> [k \in {"package.json", "pkg/utils.ts", "utils.ts", "pkg/app.css"} |->
                  IF k = "package.json" THEN <<Lbl("", "pkg_json")>>
                  ELSE IF k = "utils.ts" THEN <<Lbl("", "root")>>
                  ELSE IF k = "pkg/app.css" THEN <<Lbl("pkg", "styles")>>
                  ELSE <<Lbl("pkg", "utils")>>],
       overrides |-> <<>>, files |-> {}],
      \* two owners for the same identifier
      [ix |-> [k \in {"pkg/utils.ts", "lib/x", "pkg/lib/x.ts"} |->
                  IF k = "pkg/utils.ts" THEN <<Lbl("pkg", "a"), Lbl("pkg", "b")>>
                  ELSE IF k = "lib/x" THEN <<Lbl("p", "u1"), Lbl("q", "u2")>>
                  ELSE <<Lbl("r", "u3")>>],
       overrides |-> <<>>, files |-> {}],
      \* the unit pkg:utils owns the manifest; manual overrides
      [ix |-> [k \in {"package.json", "pkg/utils.ts", "lib/x"} |->
                  IF k = "package.json" THEN <<Lbl("pkg", "utils")>>
                  ELSE IF k = "lib/x" THEN <<Lbl("p", "u1"), Lbl("q", "u2")>>
                  ELSE <<Lbl("pkg", "other")>>],
       overrides |-> [k \in {"fs", "lib/x", "./utils"} |->
                  IF k = "fs" THEN Lbl("shim", "fs")
                  ELSE IF k = "lib/x" THEN Lbl("over", "x")
                  ELSE Lbl("pkg/sub", "lib")],
       files |-> {}],
      \* plain files on disk without an owner
      [ix |-> <<>>, overrides |-> <<>>,
       files |-> {"/repo/pkg/utils", "/repo/pkg/sub/utils.js", "/repo/utils.tsx"}],
      \* two owners for the manifest
      [ix |-> [k \in {"package.json"} |-> <<Lbl("a", "m1"), Lbl("b", "m2")>>],
       overrides |-> <<>>, files |-> {}] }

NoTable == <<>>

DependencyTable == [k \in {"lodash", "fs"} |-> "@npm//"]

\* a dependency table that lists a scoped package
ScopedDependencyTable == [k \in {"lodash", "@foo/bar"} |-> "@npm//"]

DevDependencyTable ==
    [k \in {"@foo/bar", "jest-mock", "jest-cli", "@types/node"} |-> "@npm//"]

\* kind, Dependencies, DevDependencies, JSRoot, LookupTypes, Quiet, Verbose
\* and the attributes r has before the first pass
stale == [a \in {"deps", "data"} |-> <<":old">>]

Setups ==
    { <<"js_library", NoTable, NoTable, "", FALSE, FALSE, FALSE, <<>>>>,
      <<"js_library", DependencyTable, DevDependencyTable, "pkg", FALSE, TRUE, FALSE, stale>>,
      <<"ts_project", DependencyTable, DevDependencyTable, ".", TRUE, FALSE, FALSE, stale>>,
      <<"ts_project", NoTable, DevDependencyTable, "other", FALSE, FALSE, TRUE, <<>>>>,
      <<"jest_test", ScopedDependencyTable, DevDependencyTable, ".", FALSE, FALSE, FALSE, stale>>,
      <<"jest_test", NoTable, NoTable, "pkg", FALSE, TRUE, FALSE, <<>>>> }

JsConfig(su) ==
    [ImportAliases   |-> <<[From |-> "~/", To |-> "./"]>>,
     Dependencies    |-> su[2],
     DevDependencies |-> su[3],
     DefaultNpmLabel |-> "@default//",
     JSRoot          |-> su[4],
     LookupTypes     |-> su[5],
     Quiet           |-> su[6],
     Verbose         |-> su[7]]

(***************************************************************************)
(* Resolve                                                                 *)
(***************************************************************************)
Init ==
    /\ from \in Units
    /\ \E su \in Setups : kind = su[1] /\ jsConfig = JsConfig(su) /\ attrs = su[8]
    /\ importSet \in {S \in SUBSET Identifiers : Cardinality(S) <= MaxImports}
    /\ \E w \in Worlds : ix = w.ix /\ overrides = w.overrides /\ files = w.files
    /\ pc = "idle"
    /\ packageJSON = ""
    /\ depSet = {}
    /\ dataSet = {}
    /\ todo = {}
    /\ name = ""
    /\ parents = ""
    /\ localDir = ""
    /\ target = ""
    /\ tries = <<>>
    /\ extIdx = 1
    /\ log = <<>>
    /\ handled = <<>>
    /\ exit = "none"
    /\ prevAttrs = attrs

\* a manifest lookup that logs the error and goes on with the default label
ResolveBegin_lenient ==
    /\ pc = "idle"
    /\ log' = IF tryResolve("package.json").err # nil
                 THEN <<tryResolve("package.json").err>> ELSE <<>>
    /\ exit' = "none"
    /\ pc' = "loop"
    /\ todo' = importSet
    /\ packageJSON' = "//:package"
    /\ UNCHANGED <<inputs, attrs, depSet, dataSet, name, parents, localDir, target,
                   tries, extIdx, handled, prevAttrs>>

\* lines 165-183: the manifest lookup that opens Resolve
ResolveBegin ==
    /\ pc = "idle"
    /\ LET packageResolveResult == tryResolve("package.json") IN
       IF packageResolveResult.err # nil
          THEN /\ log' = <<packageResolveResult.err>>
               /\ exit' = "fatal"
               /\ pc' = "done"
               /\ UNCHANGED <<packageJSON, todo>>
       ELSE IF packageResolveResult.selfImport
          THEN /\ log' = <<>>
               /\ exit' = "self"
               /\ pc' = "done"
               /\ UNCHANGED <<packageJSON, todo>>
       ELSE /\ log' = <<>>
            /\ exit' = "none"
            /\ pc' = "loop"
            /\ todo' = importSet
            /\ packageJSON' =
                  IF packageResolveResult.label # NoLabel
                     THEN LabelString(LabelAbs(packageResolveResult.label,
                                               from.repo, from.pkg))
                  ELSE "//:package"
    /\ UNCHANGED <<inputs, attrs, depSet, dataSet, name, parents, localDir, target,
                   tries, extIdx, handled, prevAttrs>>

\* alias translation that puts the replacement in front of the whole name
fixAlias_keepPrefix(n) ==
    LET match == FindStringSubmatch(n) IN
    IF Len(match) > 0
       THEN LET hits == {i \in 1..Len(jsConfig.ImportAliases) :
                            jsConfig.ImportAliases[i].From = match[1]}
            IN  (IF hits = {} THEN "" ELSE jsConfig.ImportAliases[Min(hits)].To) \o n
    ELSE n

\* lines 192-205: fix aliases
fixAlias(n) ==
    LET match == FindStringSubmatch(n) IN
    IF Len(match) > 0
       THEN LET prefix == match[1]
                hits   == {i \in 1..Len(jsConfig.ImportAliases) :
                              jsConfig.ImportAliases[i].From = prefix}
                alias  == IF hits = {} THEN ""
                          ELSE jsConfig.ImportAliases[Min(hits)].To
            IN  alias \o TrimPrefix(n, prefix)
    ELSE n

\* lines 211-215: the package name an npm label is made of
npmName(n) ==
    LET s == Split(n) IN
    IF HasPrefix(s[1], "@") /\ Len(s) >= 2 THEN s[1] \o "/" \o s[2] ELSE s[1]

\* a companion lookup that is made only while depSet is still empty
typesDeps_first(pkg) ==
    IF jsConfig.LookupTypes /\ kind = "ts_project" /\ depSet = {}
       THEN LET types == isNpmDependency("@types/" \o pkg) IN
            IF types[1] THEN {types[2] \o "@types/" \o pkg} ELSE {}
    ELSE {}

\* lines 222-228, 235-240, 245-251: the companion type declaration of pkg
typesDeps(pkg) ==
    IF jsConfig.LookupTypes /\ kind = "ts_project"
       THEN LET types == isNpmDependency("@types/" \o pkg) IN
            IF types[1] THEN {types[2] \o "@types/" \o pkg} ELSE {}
    ELSE {}

\* lines 321-326: the name resolveWalkParents searches for
normalize(n) ==
    LET n1 == IF n = "package" THEN "package.json" ELSE n
    IN  IF n1 = "." THEN "index" ELSE n1

\* lines 328-329: localDir and target for the given parents
walkDir(par) == PathJoin(from.pkg, par)

walkTarget(par, n) == PathJoin(walkDir(par), n)

\* lines 184-265 (and 316-329 when the identifier goes to resolveWalkParents):
\* one iteration of the loop over imports.set
ResolveImport ==
    /\ pc = "loop"
    /\ \E imp \in todo :
        /\ todo' = todo \ {imp}
        /\ handled' = Append(handled, imp)
        /\ IF imp = "package" \/ imp = "package.json"
              THEN /\ depSet' = depSet \cup {packageJSON}
                   /\ UNCHANGED <<dataSet, pc, name, localDir, target>>
           ELSE LET n   == fixAlias(imp)
                    npm == isNpmDependency(n)
                    res == tryResolve(n)
                IN
                IF npm[1]
                   THEN /\ depSet' = depSet \cup {npm[2] \o npmName(n)}
                                            \cup typesDeps(npmName(n))
                        /\ dataSet' = IF ~npm[3]
                                         THEN dataSet \cup {npm[2] \o npmName(n)}
                                      ELSE dataSet
                        /\ UNCHANGED <<pc, name, localDir, target>>
                ELSE IF HasPrefix(n, "node:")
                   THEN /\ depSet' = depSet \cup typesDeps("node")
                        /\ UNCHANGED <<dataSet, pc, name, localDir, target>>
                ELSE IF n \in BUILTINS
                   THEN /\ depSet' = depSet \cup typesDeps(n)
                        /\ UNCHANGED <<dataSet, pc, name, localDir, target>>
                ELSE IF res.err = nil /\ ~res.selfImport /\ res.label # NoLabel
                   THEN /\ depSet' = depSet \cup
                              {LabelString(LabelRel(res.label, from.repo, from.pkg))}
                        /\ UNCHANGED <<dataSet, pc, name, localDir, target>>
                ELSE /\ pc' = "walk"
                     /\ name' = normalize(n)
                     /\ localDir' = walkDir("")
                     /\ target' = walkTarget("", normalize(n))
                     /\ UNCHANGED <<depSet, dataSet>>
    /\ parents' = ""
    /\ tries' = <<>>
    /\ extIdx' = 1
    /\ UNCHANGED <<inputs, attrs, packageJSON, log, exit, prevAttrs>>

(***************************************************************************)
(* resolveWalkParents                                                      *)
(***************************************************************************)
\* the extension list with the two declared lists swapped
extraExtensionsToTry_jsFirst ==
    IF ~isWebAsset(target) THEN <<"">> \o jsExtensions \o tsExtensions ELSE <<"">>

\* lines 332-335
extraExtensionsToTry ==
    IF ~isWebAsset(target) THEN <<"">> \o tsExtensions \o jsExtensions ELSE <<"">>

\* number of "../" steps taken so far
climbed == Len(parents) \div 3

\* lines 337-369: one iteration of the loop over extraExtensionsToTry
Probe ==
    /\ pc = "walk"
    /\ extIdx <= Len(extraExtensionsToTry)
    /\ LET filePath == target \o extraExtensionsToTry[extIdx]
           res      == tryResolve(filePath)
           dep      == LabelString(LabelRel(res.label, from.repo, from.pkg))
       IN
       /\ tries' = Append(tries, filePath)
       /\ IF res.err # nil
             THEN /\ log' = Append(log, res.err)
                  /\ pc' = "loop"
                  /\ UNCHANGED <<depSet, dataSet, extIdx>>
          ELSE IF res.selfImport
             THEN /\ pc' = "loop"
                  /\ UNCHANGED <<depSet, dataSet, extIdx, log>>
          ELSE IF res.label # NoLabel
             THEN /\ IF ~isWebAsset(filePath)
                        THEN depSet' = depSet \cup {dep} /\ UNCHANGED dataSet
                     ELSE dataSet' = dataSet \cup {dep} /\ UNCHANGED depSet
                  /\ pc' = "loop"
                  /\ UNCHANGED <<extIdx, log>>
          ELSE IF res.fileName # ""
             THEN /\ dataSet' = dataSet \cup
                         {"//" \o PathDir(target) \o ":" \o res.fileName}
                  /\ pc' = "loop"
                  /\ UNCHANGED <<depSet, extIdx, log>>
          ELSE /\ extIdx' = extIdx + 1
               /\ UNCHANGED <<depSet, dataSet, pc, log>>
    /\ UNCHANGED <<inputs, attrs, packageJSON, todo, name, parents, localDir, target,
                   handled, exit, prevAttrs>>

\* lines 375-383: the messages of an unresolved import
notFound ==
    (IF ~jsConfig.Quiet
        THEN <<<<"not found", LabelString(LabelAbs(from, from.repo, from.pkg)), name>>>>
     ELSE <<>>)
    \o (IF jsConfig.Verbose
           THEN <<<<"tried node_modules", name>>>>
                \o [i \in 1..Len(tries) |-> <<"tried", tries[i]>>]
        ELSE <<>>)

\* lines 373-388 (and 321-329 of the next round): every candidate of this
\* directory failed
Climb ==
    /\ pc = "walk"
    /\ extIdx > Len(extraExtensionsToTry)
    /\ IF jsConfig.JSRoot = localDir \/ localDir = "."
          THEN /\ log' = log \o notFound
               /\ pc' = "loop"
               /\ UNCHANGED <<parents, localDir, target, extIdx>>
       ELSE /\ climbed < MaxClimb
            /\ parents' = parents \o "../"
            /\ localDir' = walkDir(parents \o "../")
            /\ target' = walkTarget(parents \o "../", name)
            /\ extIdx' = 1
            /\ UNCHANGED <<log, pc>>
    /\ UNCHANGED <<inputs, attrs, packageJSON, depSet, dataSet, todo, name, tries,
                   handled, exit, prevAttrs>>

(***************************************************************************)
(* Resolve, after the loop                                                 *)
(***************************************************************************)
\* lines 268-288: additional jest dependencies
JestExtras ==
    /\ pc = "loop"
    /\ todo = {}
    /\ pc' = "render"
    /\ IF kind = getKind("jest_test")
          THEN LET dev      == jsConfig.DevDependencies
                   eligible == {k \in DOMAIN dev : k # "jest-cli" /\ k # "jest-junit"}
                   typed    == {dev[k] \o k : k \in {e \in eligible :
                                                       HasPrefix(e, "@types/jest")}}
                   jest     == {dev[k] \o k : k \in {e \in eligible :
                                                       HasPrefix(e, "jest")}}
                   packageLocation == IF jsConfig.JSRoot = "." THEN ""
                                      ELSE jsConfig.JSRoot
               IN  /\ depSet' = depSet \cup typed \cup jest
                   /\ dataSet' = dataSet \cup jest
                                   \cup {"//" \o packageLocation \o ":package_json"}
       ELSE UNCHANGED <<depSet, dataSet>>
    /\ UNCHANGED <<inputs, attrs, packageJSON, todo, name, parents, localDir, target,
                   tries, extIdx, log, handled, exit, prevAttrs>>

\* the orders in which a range over a map can deliver its keys
Orders(S) ==
    {q \in [1..Cardinality(S) -> S] : \A i, j \in 1..Cardinality(S) : q[i] = q[j] => i = j}

\* r.SetAttr / r.DelAttr
SetAttr(as, key, value) == [k \in DOMAIN as \cup {key} |-> IF k = key THEN value ELSE as[k]]

\* a removal that leaves the attribute behind with an empty list
DelAttr_empty(as, key) == [k \in DOMAIN as \cup {key} |-> IF k = key THEN <<>> ELSE as[k]]

DelAttr(as, key) == [k \in DOMAIN as \ {key} |-> as[k]]

\* the slice built by ranging over a set
sliceOf(S) == Orders(S)

\* lines 290-308: write the attributes
Render ==
    /\ pc = "render"
    /\ \E deps \in sliceOf(depSet), data \in sliceOf(dataSet) :
          LET withDeps == IF Len(deps) > 0 THEN SetAttr(attrs, "deps", deps)
                          ELSE DelAttr(attrs, "deps")
          IN  attrs' = IF Len(data) > 0 THEN SetAttr(withDeps, "data", data)
                       ELSE DelAttr(withDeps, "data")
    /\ pc' = "done"
    /\ exit' = "rendered"
    /\ UNCHANGED <<inputs, locals, log, handled, prevAttrs>>

Next ==
    \/ ResolveBegin
    \/ ResolveImport
    \/ Probe
    \/ Climb
    \/ JestExtras
    \/ Render

Spec == Init /\ [][Next]_vars

(***************************************************************************)
(* Alias translation on its own: lines 192-205 applied to a name again and *)
(* again under different alias rules                                       *)
(***************************************************************************)
\* how often the translation is applied to a name
MaxTranslations == 2

AliasIdentifiers == Identifiers \cup {"@/x", "~/~/a", "~~/b", "src/a"}

AliasRuleSets ==
    { <<>>,
      <<[From |-> "~/", To |-> "./"]>>,
      <<[From |-> "~/", To |-> "src/"], [From |-> "~~/", To |-> "./"]>>,
      <<[From |-> "@/", To |-> "~/"], [From |-> "~/", To |-> "./"]>>,
      <<[From |-> "~/", To |-> "~/src/"]>>,
      <<[From |-> "~/", To |-> ""]>>,
      <<[From |-> "lib/", To |-> "./lib/"], [From |-> "@foo/", To |-> "lib/"]>> }

InitAlias ==
    /\ from = Lbl("pkg", "utils")
    /\ kind = "js_library"
    /\ attrs = <<>>
    /\ \E rules \in AliasRuleSets :
          jsConfig = [JsConfig(<<"js_library", NoTable, NoTable, "", FALSE, FALSE,
                                 FALSE, <<>>>>) EXCEPT !.ImportAliases = rules]
    /\ importSet = {}
    /\ ix = <<>> /\ overrides = <<>> /\ files = {}
    /\ pc = "alias"
    /\ packageJSON = ""
    /\ depSet = {}
    /\ dataSet = {}
    /\ todo = {}
    /\ name \in AliasIdentifiers
    /\ parents = ""
    /\ localDir = ""
    /\ target = ""
    /\ tries = <<>>
    /\ extIdx = 1
    /\ log = <<>>
    /\ handled = <<>>
    /\ exit = "none"
    /\ prevAttrs = attrs

\* lines 192-205; handled keeps the names before each translation
Translate ==
    /\ pc = "alias"
    /\ Len(handled) < MaxTranslations
    /\ handled' = Append(handled, name)
    /\ name' = fixAlias(name)
    /\ UNCHANGED <<inputs, attrs, packageJSON, depSet, dataSet, todo, parents,
                   localDir, target, tries, extIdx, log, exit, prevAttrs, pc>>

NextAlias == Translate

AliasSpec == InitAlias /\ [][NextAlias]_vars

(***************************************************************************)
(* Properties                                                              *)
(***************************************************************************)
Range(q) == {q[i] : i \in 1..Len(q)}

\* the labels written to attribute key ({} when the attribute is absent)
Written(key) == IF key \in DOMAIN attrs THEN Range(attrs[key]) ELSE {}

isManifest(imp) == imp = "package" \/ imp = "package.json"

\* the identifier gets past the npm and builtin checks to the lookup of line 256
reachesLookup(imp) ==
    /\ ~isManifest(imp)
    /\ ~isNpmDependency(fixAlias(imp))[1]
    /\ ~HasPrefix(fixAlias(imp), "node:")
    /\ fixAlias(imp) \notin BUILTINS

\* the loop is done with the i-th identifier it visited
settled(i) == i < Len(handled) \/ pc # "walk"

\* C1: an identifier that two distinct units index is never resolved without
\* the "multiple rules" error naming both owners (stated for identifiers the
\* override table has no entry for, where only the index decides).
AmbiguityAlwaysRaised ==
    \A i \in 1..Len(handled) :
        LET n      == fixAlias(handled[i])
            owners == FindRulesByImportWithConfig(n)
        IN  ( /\ reachesLookup(handled[i])
              /\ settled(i)
              /\ n \notin DOMAIN overrides
              /\ Len(owners) > 1
              /\ owners[1] # owners[2] )
            => <<"multiple rules", owners[1], owners[2], n>> \in Range(log)

\* C2: after Resolve has written the attributes, neither "deps" nor "data"
\* holds the importing unit's own label, relative or absolute.
OwnLabelNeverRendered ==
    exit = "rendered" =>
        \A key \in {"deps", "data"} :
            Written(key) \cap {LabelString(from), ":" \o from.name} = {}

\* C3: the label of an identifier whose package (scoped or not) is listed in
\* the dev-dependency table and not in the dependency table is never in the
\* runtime/data set, under whichever label prefix it was given.
DevDependencyNeverInData ==
    \A i \in 1..Len(handled) :
        LET n   == fixAlias(handled[i])
            pkg == npmName(n)
        IN  ( /\ ~isManifest(handled[i])
              /\ ~hasPrefix(prefixes, n)
              /\ pkg \in DOMAIN jsConfig.DevDependencies
              /\ pkg \notin DOMAIN jsConfig.Dependencies )
            => \A npmLabel \in {jsConfig.DevDependencies[pkg], jsConfig.DefaultNpmLabel} :
                  npmLabel \o pkg \notin dataSet \cup Written("data")

\* number of directories on the way from the repository root to package p
Depth(p) == IF p = "" THEN 0 ELSE Len(Split(p))

\* C4: resolveWalkParents probes at most as many ancestor levels as the
\* importing unit's directory is deep, plus one (its own directory).
WalkBoundedByDepth == pc = "walk" => climbed + 1 <= Depth(from.pkg) + 1

\* the characters of labels, in byte order
Alphabet == "-./0123456789:@_abcdefghijklmnopqrstuvwxyz"

Rank(c) == CHOOSE i \in 1..Len(Alphabet) : SubSeq(Alphabet, i, i) = c

RECURSIVE StrLess(_, _)
StrLess(a, b) ==
    IF b = "" THEN FALSE
    ELSE IF a = "" THEN TRUE
    ELSE IF SubSeq(a, 1, 1) = SubSeq(b, 1, 1)
         THEN StrLess(SubSeq(a, 2, Len(a)), SubSeq(b, 2, Len(b)))
    ELSE Rank(SubSeq(a, 1, 1)) < Rank(SubSeq(b, 1, 1))

\* C5: every written attribute list is in sorted order without repeated label,
\* hence the same sequence on every run over the same input.
RenderedSortedAndStable ==
    exit = "rendered" =>
        \A key \in DOMAIN attrs :
            \A i \in 1..(Len(attrs[key]) - 1) : StrLess(attrs[key][i], attrs[key][i + 1])

\* an ambiguity error was raised while walking for one of the identifiers
AmbiguityLogged == \E j \in 1..Len(log) : log[j][1] = "multiple rules"

\* C6: once an identifier's lookup has raised the ambiguity error, no further
\* identifier is processed and no attribute is written.
AmbiguityAbortsUnit ==
    [][(pc # "idle" /\ AmbiguityLogged) => (handled' = handled /\ attrs' = attrs)]_vars

\* parents after k steps up
RECURSIVE parentsAfter(_)
parentsAfter(k) == IF k = 0 THEN "" ELSE parentsAfter(k - 1) \o "../"

\* the bare target and then the declared extensions in their declared order;
\* when assetAware, a non-code asset is probed bare only
extensionsFor(tg, assetAware) ==
    IF assetAware /\ isWebAsset(tg) THEN <<"">>
    ELSE <<"">> \o tsExtensions \o jsExtensions

\* the candidates of ancestor depth k
candidatesAt(k, assetAware) ==
    LET tg   == PathJoin(PathJoin(from.pkg, parentsAfter(k)), name)
        exts == extensionsFor(tg, assetAware)
    IN  [i \in 1..Len(exts) |-> tg \o exts[i]]

\* the candidates of depths 0..k, depth-major and extension-minor
RECURSIVE candidatesUpTo(_, _)
candidatesUpTo(k, assetAware) ==
    IF k < 0 THEN <<>>
    ELSE candidatesUpTo(k - 1, assetAware) \o candidatesAt(k, assetAware)

\* the query for t found no owner, no file and no error
noOutcome(t) == tryResolve(t) = resolveResult(NoLabel, FALSE, "", nil)

\* tries follows the candidate order; a depth is left only when all of its
\* candidates were probed, and only the last probe can have an outcome
probesFollow(assetAware) ==
    tries # <<>> =>
        LET upTo   == candidatesUpTo(climbed, assetAware)
            before == Len(candidatesUpTo(climbed - 1, assetAware))
        IN  /\ Len(tries) <= Len(upTo)
            /\ tries = SubSeq(upTo, 1, Len(tries))
            /\ Len(tries) >= before
            /\ \A i \in 1..(Len(tries) - 1) : noOutcome(tries[i])
            /\ pc = "walk" => /\ noOutcome(tries[Len(tries)])
                              /\ Len(tries) = before + extIdx - 1

\* C7, as claimed: at every depth the bare target and then every declared
\* extension is probed, depth k+1 only after all of depth k, stopping at the
\* first outcome.
ProbeOrderEveryExtension == probesFollow(FALSE)

\* C7, amended: as claimed, except that a target that is a non-code asset is
\* probed bare only at each depth.
ProbeOrderAssetAware == probesFollow(TRUE)

\* "./utils" from pkg/sub: all five candidates of pkg/sub failed and the walk
\* is probing pkg
ProbeOrderWitness ==
    /\ pc = "walk"
    /\ climbed = 1
    /\ Len(tries) = 7
    /\ tries[1] = "pkg/sub/utils"
    /\ tries[2] = "pkg/sub/utils.ts"
    /\ tries[3] = "pkg/sub/utils.tsx"
    /\ tries[6] = "pkg/utils"
    /\ tries[7] = "pkg/utils.ts"

\* the loop has visited exactly one identifier and nothing came after it
firstOnly == Len(handled) = 1 /\ pc \in {"loop", "walk"}

\* C8: an identifier with an override entry that differs from the importing
\* unit yields the override label as its only edge, whatever else it is.
OverrideBypassesClassification ==
    \A imp \in DOMAIN overrides :
        (firstOnly /\ handled[1] = imp /\ ~isManifest(imp)
                   /\ ~LabelEqual(overrides[imp], from))
        => /\ pc = "loop"
           /\ depSet = {LabelString(LabelRel(overrides[imp], from.repo, from.pkg))}
           /\ dataSet = {}

\* C9: for a scoped package the key looked up is "@scope/name": listed in the
\* dependency table it is a runtime dependency under that entry's label, listed
\* only in the dev-dependency table it is compile-time-only, and the default
\* label is used only when it is in neither table.
ScopedRootLookedUp ==
    (firstOnly /\ ~isManifest(handled[1]))
    => LET n    == fixAlias(handled[1])
           root == npmName(n)
           deps == jsConfig.Dependencies
           dev  == jsConfig.DevDependencies
       IN  (HasPrefix(n, "@") /\ ~hasPrefix(prefixes, n) /\ ~HasPrefix(n, "@types"))
           => IF root \in DOMAIN deps
                 THEN deps[root] \o root \in depSet \cap dataSet
              ELSE IF root \in DOMAIN dev
                 THEN dev[root] \o root \in depSet /\ dataSet = {}
              ELSE jsConfig.DefaultNpmLabel \o root \in depSet \cap dataSet

\* C10: a pass that no fatal error aborted leaves in each attribute exactly
\* the set derived in that pass, and no attribute when that set is empty.
AttributesFullyReplaced ==
    (pc = "done" /\ exit # "fatal") =>
        /\ Written("deps") = depSet
        /\ Written("data") = dataSet
        /\ \A key \in DOMAIN attrs : Len(attrs[key]) > 0

\* the identifier is a builtin module name or carries the builtin scheme
isBuiltin(imp) == HasPrefix(imp, "node:") \/ imp \in BUILTINS

\* labels of type-declaration companions
isTypesLabel(l) ==
    \E npmLabel \in {"@npm//", jsConfig.DefaultNpmLabel} :
        HasPrefix(l, npmLabel \o "@types/")

\* C11: a builtin identifier (a builtin module name or one with the "node:"
\* prefix) adds nothing to data and nothing to deps except a type-declaration
\* companion, whatever the dependency tables list under its name.
BuiltinAddsNoEdge ==
    (firstOnly /\ pc = "loop" /\ isBuiltin(handled[1]))
    => /\ dataSet = {}
       /\ \A d \in depSet : isTypesLabel(d)

\* the name the k-th translation produced
translated(k) == IF k < Len(handled) THEN handled[k + 1] ELSE name

\* the rules of jsConfig whose "from" is a prefix of n, by position
matching(n) == {i \in 1..Len(jsConfig.ImportAliases) :
                   HasPrefix(n, jsConfig.ImportAliases[i].From)}

\* every translation replaced exactly the matched prefix by the replacement of
\* its rule and passed a name no rule matches through unchanged
translatedExactly ==
    \A k \in 1..Len(handled) :
        LET n == handled[k] IN
        IF matching(n) = {} THEN translated(k) = n
        ELSE LET rule == jsConfig.ImportAliases[Min(matching(n))]
             IN  translated(k) = rule.To \o SubSeq(n, Len(rule.From) + 1, Len(n))

\* no replacement begins with a "from" prefix and no "from" prefix begins with
\* a replacement
separated ==
    \A i, j \in 1..Len(jsConfig.ImportAliases) :
        /\ ~HasPrefix(jsConfig.ImportAliases[i].To, jsConfig.ImportAliases[j].From)
        /\ ~HasPrefix(jsConfig.ImportAliases[j].From, jsConfig.ImportAliases[i].To)

\* C12, as claimed: the translation replaces exactly the matched prefix, passes
\* other names through, and translating a translated name changes nothing,
\* under every set of alias rules.
AliasTranslationIdempotent ==
    pc = "alias" =>
        /\ translatedExactly
        /\ Len(handled) >= 2 => name = handled[2]

\* C12, amended: as claimed, with idempotence for the alias rules in which no
\* replacement begins with a "from" prefix and no "from" prefix begins with a
\* replacement.
AliasTranslationExact ==
    pc = "alias" =>
        /\ translatedExactly
        /\ (Len(handled) >= 2 /\ separated) => name = handled[2]

\* "~/utils" became "./utils" and a second translation left it alone
AliasTranslationWitness ==
    /\ pc = "alias"
    /\ separated
    /\ handled = <<"~/utils", "./utils">>
    /\ name = "./utils"

\* the set Resolve computed for attribute key
computed(key) == IF key = "deps" THEN depSet ELSE dataSet

\* C13: after the rendering step each of deps and data is absent or a
\* non-empty list, and absent exactly when the set computed for it is empty,
\* each attribute on its own.
EmptySetRemovesAttribute ==
    exit = "rendered" =>
        \A key \in {"deps", "data"} :
            /\ key \in DOMAIN attrs <=> computed(key) # {}
            /\ key \in DOMAIN attrs => Len(attrs[key]) > 0

\* a unit that had both attributes lost deps and kept a data list
EmptySetRemovesWitness ==
    /\ exit = "rendered"
    /\ DOMAIN prevAttrs = {"deps", "data"}
    /\ depSet = {}
    /\ dataSet # {}
    /\ DOMAIN attrs = {"data"}

\* every directory from the unit's package up to the repository root has been
\* probed for the current name without an outcome
walkExhausted ==
    /\ pc = "walk"
    /\ extIdx > Len(extraExtensionsToTry)
    /\ climbed >= Depth(from.pkg)

\* the "not found" diagnostic for the current name is in the log
notFoundLogged(lg) ==
    \E j \in 1..Len(lg) : lg[j][1] = "not found" /\ lg[j][3] = name

\* C14: an identifier that no directory up to the repository root resolves
\* ends its walk there: no label is added, the loop goes on with the remaining
\* identifiers, and "not found" is logged unless quiet is set.
UnresolvedIsRecoverable ==
    [][walkExhausted =>
          /\ pc' = "loop"
          /\ depSet' = depSet
          /\ dataSet' = dataSet
          /\ todo' = todo
          /\ ~jsConfig.Quiet => notFoundLogged(log')]_vars

\* the index has exactly one owner for t and it is not the importing unit
singleOwner(t) ==
    /\ Len(FindRulesByImportWithConfig(t)) = 1
    /\ ~IsSelfImport(FindRulesByImportWithConfig(t)[1], from)

\* the label Resolve writes for the owner of t
ownerLabel(t) ==
    LabelString(LabelRel(FindRulesByImportWithConfig(t)[1], from.repo, from.pkg))

\* C15: a local identifier the index resolves to one owner, directly or at a
\* candidate of the ancestor walk, yields that owner's label as its only
\* edge: in data and not in deps when the target is a non-code asset, in deps
\* and not in data otherwise.
SingleOwnerEdgeClassified ==
    (firstOnly /\ pc = "loop" /\ reachesLookup(handled[1]) /\ overrides = <<>>)
    => LET n   == fixAlias(handled[1])
           hit == IF singleOwner(n) THEN n
                  ELSE IF tries # <<>> /\ singleOwner(tries[Len(tries)])
                       THEN tries[Len(tries)]
                  ELSE ""
       IN  hit # "" =>
              IF isWebAsset(hit)
                 THEN dataSet = {ownerLabel(hit)} /\ depSet = {}
              ELSE depSet = {ownerLabel(hit)} /\ dataSet = {}

\* C16: an identifier whose override entry is the importing unit itself
\* yields no edge, whatever the index or the disk hold for it.
OverrideSelfNoEdge ==
    \A imp \in DOMAIN overrides :
        (firstOnly /\ pc = "loop" /\ handled[1] = imp /\ reachesLookup(imp)
                   /\ LabelEqual(overrides[imp], from))
        => depSet = {} /\ dataSet = {}

\* the manifest lookup that opens Resolve finds the importing unit
manifestIsSelf == pc = "idle" /\ tryResolve("package.json").selfImport

\* the candidate the walk probes next is indexed by the importing unit
candidateIsSelf ==
    /\ pc = "walk"
    /\ extIdx <= Len(extraExtensionsToTry)
    /\ tryResolve(target \o extraExtensionsToTry[extIdx]).selfImport

\* C17: a lookup that finds the importing unit itself omits that edge and
\* nothing else: after the manifest lookup the loop starts on all identifiers
\* of the unit, after a candidate of the walk the loop goes on with the
\* remaining ones and the sets are as they were.
SelfReferenceOmitsOnlyItself ==
    [][/\ manifestIsSelf => (pc' = "loop" /\ todo' = importSet)
       /\ candidateIsSelf => /\ pc' = "loop"
                             /\ todo' = todo
                             /\ depSet' = depSet
                             /\ dataSet' = dataSet]_vars

\* C18: when the index query for "package.json" fails, Resolve logs the error
\* and returns: no identifier is processed, no edge is added and deps and data
\* are what they were before the call.
ManifestFailureIsFatal ==
    (pc # "idle" /\ pc # "alias" /\ tryResolve("package.json").err # nil)
    => /\ pc = "done"
       /\ exit = "fatal"
       /\ log = <<tryResolve("package.json").err>>
       /\ handled = <<>>
       /\ depSet = {}
       /\ dataSet = {}
       /\ attrs = prevAttrs

\* a unit with imports and attributes of an earlier pass was aborted
ManifestFailureWitness ==
    /\ exit = "fatal"
    /\ importSet # {}
    /\ attrs = stale
    /\ Len(log) = 1

\* the package root of an identifier: its first path segment, the first two
\* for a scoped package
rootOf(n) ==
    LET s == Split(n) IN
    IF HasPrefix(n, "@") /\ Len(s) >= 2 THEN s[1] \o "/" \o s[2] ELSE s[1]

\* C19: an identifier whose package root is listed in the dependency table
\* with label prefix P puts P+root into both the compile-time and the
\* runtime/data set, and into both attributes once they are written.
RuntimeDependencyInBothSets ==
    \A i \in 1..Len(handled) :
        LET n    == fixAlias(handled[i])
            root == rootOf(n)
        IN  (~isManifest(handled[i]) /\ root \in DOMAIN jsConfig.Dependencies)
            => /\ jsConfig.Dependencies[root] \o root \in depSet \cap dataSet
               /\ exit = "rendered" =>
                     jsConfig.Dependencies[root] \o root
                        \in Written("deps") \cap Written("data")

\* what a walk for name nm that starts k directories up adds to <<deps, data>>
RECURSIVE walkFrom(_, _)
walkFrom(nm, k) ==
    LET dir  == PathJoin(from.pkg, parentsAfter(k))
        tg   == PathJoin(dir, nm)
        exts == extensionsFor(tg, TRUE)
        hits == {i \in 1..Len(exts) : ~noOutcome(tg \o exts[i])}
    IN  IF hits # {}
           THEN LET fp  == tg \o exts[Min(hits)]
                    res == tryResolve(fp)
                    dep == LabelString(LabelRel(res.label, from.repo, from.pkg))
                IN  IF res.err # nil \/ res.selfImport THEN <<{}, {}>>
                    ELSE IF res.label # NoLabel
                       THEN IF isWebAsset(fp) THEN <<{}, {dep}>> ELSE <<{dep}, {}>>
                    ELSE <<{}, {"//" \o PathDir(tg) \o ":" \o res.fileName}>>
        ELSE IF jsConfig.JSRoot = dir \/ dir = "." \/ k >= MaxClimb THEN <<{}, {}>>
        ELSE walkFrom(nm, k + 1)

\* what identifier imp adds to <<deps, data>> when it is the only identifier
\* of the unit
contribution(imp) ==
    LET n   == fixAlias(imp)
        npm == isNpmDependency(n)
        res == tryResolve(n)
    IN  IF isManifest(imp) THEN <<{packageJSON}, {}>>
        ELSE IF npm[1]
           THEN <<{npm[2] \o npmName(n)} \cup typesDeps(npmName(n)),
                  IF npm[3] THEN {} ELSE {npm[2] \o npmName(n)}>>
        ELSE IF HasPrefix(n, "node:") THEN <<typesDeps("node"), {}>>
        ELSE IF n \in BUILTINS THEN <<typesDeps(n), {}>>
        ELSE IF res.err = nil /\ ~res.selfImport /\ res.label # NoLabel
           THEN <<{LabelString(LabelRel(res.label, from.repo, from.pkg))}, {}>>
        ELSE walkFrom(normalize(n), 0)

\* C20: between two identifiers, and after the last, deps and data are the
\* union of what each identifier visited so far contributes on its own, in
\* whatever order the loop visited them.
IdentifiersIndependent ==
    pc = "loop" =>
        /\ depSet = UNION {contribution(imp)[1] : imp \in Range(handled)}
        /\ dataSet = UNION {contribution(imp)[2] : imp \in Range(handled)}
        /\ todo = importSet \ Range(handled)

\* two identifiers were visited, the second through the ancestor walk, and
\* each added a label of its own
IdentifiersIndependentWitness ==
    /\ pc = "loop"
    /\ todo = {}
    /\ Len(handled) = 2
    /\ tries # <<>>
    /\ contribution(handled[1])[1] # {}
    /\ contribution(handled[2])[1] # {}
    /\ contribution(handled[1])[1] # contribution(handled[2])[1]

====
